---- MODULE Spec2Model ----
(***************************************************************************)
(* daily-digest, multi-user scheduler: the hourly scheduling pass          *)
(* (hourly_digest_check), the per-user delivery (send_digest_to_user) and  *)
(* the per-user feed aggregation (fetch_articles_for_user).                *)
(*                                                                         *)
(* Time is counted in whole hours since an epoch at 00:00 UTC.  A          *)
(* timezone is a fixed offset in hours (no DST rule is modelled).          *)
(* last_digest_sent is <<>> when the column is NULL and <<t>> otherwise.   *)
(*                                                                         *)
(* Spec and FairSpec are the scheduler.  SelSpec applies main.py's article *)
(* selection (select_top_articles_with_ai, diversify_articles) to          *)
(* enumerated candidate lists and oracle replies.  StoreSpec is the HTTP   *)
(* surface over the users and user_feeds tables.                           *)
(***************************************************************************)
EXTENDS Integers, Sequences, FiniteSets, TLC

\* ------------------------------------------------------------------ bounds
\* Last clock hour that is explored.
MaxNow == 27
\* Hour boundaries one scheduling pass may span while it runs.
MaxPassHours == 1
\* Longest candidate list enumerated for the article selection.
MaxCands == 3
\* Largest selection target enumerated.
MaxTarget == 2
\* Longest oracle reply enumerated, in characters.
MaxReplyLen == 3
\* Ids of the user_feeds id sequence that add_user_feed may take.
MaxAdded == 1

\* --------------------------------------------------------- program constants
HoursPerDay == 24
\* parsed_feed.entries[:3]
PerFeedCap == 3
\* articles[:12]
MaxArticles == 12

\* ------------------------------------------------------------ the population
\* Rows of the users table, in row order.
UserOrder == <<"u0", "u1", "u2">>
UserIds == {UserOrder[i] : i \in 1..Len(UserOrder)}

\* The two entry points that run hourly_digest_check.
Procs == {"cron", "http"}

\* pytz.timezone(name): the zones pytz knows, as UTC offsets in hours.
\* Any other name raises UnknownTimeZoneError.
TzOffset ==
    [tz \in {"UTC", "Asia/Tokyo", "America/Sao_Paulo"} |->
        CASE tz = "UTC" -> 0
          [] tz = "Asia/Tokyo" -> 9
          [] tz = "America/Sao_Paulo" -> 0 - 3]

KnownTimezone(tz) == tz \in DOMAIN TzOffset

\* current_utc.astimezone(user_tz).hour
LocalHour(t, tz) == (t + TzOffset[tz]) % HoursPerDay

\* current_utc.astimezone(user_tz).date(), as a day number
LocalDate(t, tz) == (t + TzOffset[tz]) \div HoursPerDay

\* What POST /register stored for each user: register_user does not check
\* the timezone name, so a row may hold a name pytz does not know.
Registered ==
    [u \in UserIds |->
        CASE u = "u0" -> [timezone |-> "Mars/Phobos", schedule_hour |-> 10]
          [] u = "u1" -> [timezone |-> "Asia/Tokyo", schedule_hour |-> 11]
          [] u = "u2" -> [timezone |-> "America/Sao_Paulo", schedule_hour |-> 23]]

\* The prefix register_user requires of a webhook url; a url is the sequence
\* of its parts.
SlackPrefix == <<"https://", "hooks.slack.com", "/">>

\* s.startswith(prefix)
StartsWith(s, prefix) ==
    Len(s) >= Len(prefix) /\ SubSeq(s, 1, Len(prefix)) = prefix

\* ------------------------------------------------------------ feed aggregation
\* default_feeds of add_user: the feed rows a registration inserts, in order.
RegistrationFeeds ==
    <<"blog.langchain.dev", "openai.com", "blog.pythonlibrary.org",
      "huggingface.co", "TheHackersNews", "javascriptweekly.com",
      "techcrunch.com", "arstechnica.com", "stackoverflow.blog", "news.mit.edu">>

\* The list fetch_articles_for_user falls back to when the user has no feed.
FallbackFeeds ==
    <<"www.langchain.dev", "openai.com", "pythonweekly.com",
      "huggingface.co", "techcrunch.com", "arstechnica.com">>

\* An attribute feedparser did not find in the entry.
Absent == "<absent>"

\* What the feed servers answer during one fetch cycle.
Worlds == {"fresh", "syndicated", "quiet", "untitled", "outage", "stalled"}

Entry(url, k) == [title |-> "T", link |-> <<url, k>>]

\* feedparser.parse(url) in world w: the entries served (newest first), or
\* an exception, or no answer at all.
FeedResponse(w, url) ==
    CASE w = "fresh" ->
           [status |-> "ok", entries |-> [k \in 1..4 |-> Entry(url, k)]]
      [] w = "syndicated" ->
           [status |-> "ok",
            entries |-> <<[title |-> "T", link |-> <<"wire", 1>>],
                          Entry(url, 1)>>]
      [] w = "quiet" ->
           [status |-> "ok", entries |-> <<>>]
      [] w = "untitled" ->
           [status |-> "ok",
            entries |-> <<Entry(url, 1),
                          [title |-> Absent, link |-> <<url, 2>>]>>]
      [] w = "outage" ->
           IF url = "openai.com"
           THEN [status |-> "error", entries |-> <<>>]
           ELSE [status |-> "ok", entries |-> <<Entry(url, 1)>>]
      [] w = "stalled" ->
           IF url = "openai.com"
           THEN [status |-> "hang", entries |-> <<>>]
           ELSE [status |-> "ok", entries |-> <<Entry(url, 1)>>]

\* seq[:n]
Take(seq, n) == SubSeq(seq, 1, IF Len(seq) < n THEN Len(seq) ELSE n)

\* (C17) A loop whose try encloses the for: the first feed that raises ends
\* the collection.
RECURSIVE CollectEntries_StopsAtError(_, _, _)
CollectEntries_StopsAtError(feeds, w, i) ==
    IF i = 0 THEN <<>>
    ELSE LET r == FeedResponse(w, feeds[i])
             sofar == CollectEntries_StopsAtError(feeds, w, i - 1)
         IN IF \A j \in 1..i : FeedResponse(w, feeds[j]).status = "ok"
            THEN sofar \o Take(r.entries, PerFeedCap)
            ELSE sofar

\* (C18) A loop that extends the pool with every entry of the feed.
RECURSIVE CollectEntries_Uncapped(_, _, _)
CollectEntries_Uncapped(feeds, w, i) ==
    IF i = 0 THEN <<>>
    ELSE LET r == FeedResponse(w, feeds[i])
             sofar == CollectEntries_Uncapped(feeds, w, i - 1)
         IN IF r.status = "ok" THEN sofar \o r.entries ELSE sofar

\* The loop of fetch_articles_for_user over feeds[1..i]: a feed that raises
\* is skipped, every other feed contributes its first PerFeedCap entries.
RECURSIVE CollectEntries(_, _, _)
CollectEntries(feeds, w, i) ==
    IF i = 0 THEN <<>>
    ELSE LET r == FeedResponse(w, feeds[i])
             sofar == CollectEntries(feeds, w, i - 1)
         IN IF r.status = "ok"
            THEN sofar \o Take(r.entries, PerFeedCap)
            ELSE sofar

\* (C22) The defaults are fetched in addition to the user's own feeds.
FeedsToFetch_DefaultsToo(stored) == stored \o FallbackFeeds

\* get_user_feeds(user_id) or the fallback list
FeedsToFetch(stored) == IF stored = <<>> THEN FallbackFeeds ELSE stored

\* fetch_articles_for_user: [outcome, feeds, pool, articles], feeds and pool
\* being the local list the loop reads and the one it fills.  feedparser.parse is a blocking call: a feed that
\* never answers blocks the caller for good.  The final comprehension reads
\* e.title of the first MaxArticles entries of the pool and raises
\* AttributeError when one lacks it.
fetch_articles_for_user(stored, w) ==
    LET feeds == FeedsToFetch(stored)
        pool == CollectEntries(feeds, w, Len(feeds))
        cut == Take(pool, MaxArticles)
    IN IF \E i \in 1..Len(feeds) : FeedResponse(w, feeds[i]).status = "hang"
       THEN [outcome |-> "hang", feeds |-> feeds, pool |-> <<>>,
             articles |-> <<>>]
       ELSE IF \E i \in 1..Len(cut) : cut[i].title = Absent
            THEN [outcome |-> "raise", feeds |-> feeds, pool |-> pool,
                  articles |-> <<>>]
            ELSE [outcome |-> "ok", feeds |-> feeds, pool |-> pool,
                  articles |-> [i \in 1..Len(cut) |->
                                  [title |-> cut[i].title, link |-> cut[i].link]]]

\* --------------------------------------------- article selection (main.py)
\* The candidate main.fetch_articles builds from the entry at position i of
\* its pool; source is Absent for a candidate dict without that key.
Candidate(i, src) == [title |-> <<"t", i - 1>>, link |-> i - 1, source |-> src]

\* {"title": a["title"], "link": a["link"]}
TitleAndLink(a) == [title |-> a.title, link |-> a.link]

\* a.get("source", "Unknown")
SourceOf(a) == IF a.source = Absent THEN "Unknown" ELSE a.source

\* by_source.setdefault(src, []).append(a): by_source as the sequence of its
\* (key, bucket) pairs, in insertion order.
Bucketed(by_source, a) ==
    IF \E k \in 1..Len(by_source) : by_source[k].src = SourceOf(a)
    THEN [k \in 1..Len(by_source) |->
            IF by_source[k].src = SourceOf(a)
            THEN [by_source[k] EXCEPT !.bucket = Append(@, a)]
            ELSE by_source[k]]
    ELSE Append(by_source, [src |-> SourceOf(a), bucket |-> <<a>>])

\* The first loop of diversify_articles over articles[1..i].
RECURSIVE BySource(_, _)
BySource(articles, i) ==
    IF i = 0 THEN <<>> ELSE Bucketed(BySource(articles, i - 1), articles[i])

\* (C26) A for loop without the break: the round is always finished.
RECURSIVE ForEachSource_NoBreak(_, _, _, _)
ForEachSource_NoBreak(by_source, selected, k, max_articles) ==
    IF k > Len(by_source)
    THEN [by_source |-> by_source, selected |-> selected]
    ELSE IF by_source[k].bucket = <<>>
         THEN ForEachSource_NoBreak(by_source, selected, k + 1, max_articles)
         ELSE ForEachSource_NoBreak(
                  [by_source EXCEPT ![k].bucket = Tail(@)],
                  Append(selected, TitleAndLink(Head(by_source[k].bucket))),
                  k + 1, max_articles)

\* The for loop of diversify_articles from key k on: [by_source, selected]
\* when it ends or breaks.
RECURSIVE ForEachSource(_, _, _, _)
ForEachSource(by_source, selected, k, max_articles) ==
    IF k > Len(by_source)
    THEN [by_source |-> by_source, selected |-> selected]
    ELSE IF by_source[k].bucket = <<>>
         THEN ForEachSource(by_source, selected, k + 1, max_articles)
         ELSE LET item == Head(by_source[k].bucket)
                  popped == [by_source EXCEPT ![k].bucket = Tail(@)]
                  appended == Append(selected, TitleAndLink(item))
              IN IF Len(appended) >= max_articles
                 THEN [by_source |-> popped, selected |-> appended]
                 ELSE ForEachSource(popped, appended, k + 1, max_articles)

\* The while loop of diversify_articles.
RECURSIVE WhileSelecting(_, _, _)
WhileSelecting(by_source, selected, max_articles) ==
    IF /\ Len(selected) < max_articles
       /\ \E k \in 1..Len(by_source) : by_source[k].bucket # <<>>
    THEN LET r == ForEachSource(by_source, selected, 1, max_articles)
         IN WhileSelecting(r.by_source, r.selected, max_articles)
    ELSE selected

\* (C14) A selection that takes the head of the list, without rounds.
diversify_articles_Head(articles, max_articles) ==
    [selected |-> [i \in 1..Len(Take(articles, max_articles)) |->
                     TitleAndLink(articles[i])],
     articles |-> articles]

\* (C15) A selection that pops what it selects from the caller's list.
diversify_articles_Consuming(articles, max_articles) ==
    LET selected == WhileSelecting(BySource(articles, Len(articles)), <<>>,
                                   max_articles)
    IN [selected |-> selected,
        articles |-> SelectSeq(articles, LAMBDA a :
                        \A m \in 1..Len(selected) : selected[m].link # a.link)]

\* diversify_articles: [selected, articles], what it returns and the
\* caller's list after the call.  The buckets are lists of its own, pop(0)
\* works on them and the dicts it appends are new: the caller's list keeps
\* its elements.
diversify_articles(articles, max_articles) ==
    [selected |-> WhileSelecting(BySource(articles, Len(articles)), <<>>,
                                 max_articles),
     articles |-> articles]

\* The characters \d matches.
Digits == {"0", "1", "2", "3", "4", "5", "6", "7", "8", "9"}

DigitValue(c) ==
    CASE c = "0" -> 0 [] c = "1" -> 1 [] c = "2" -> 2 [] c = "3" -> 3
      [] c = "4" -> 4 [] c = "5" -> 5 [] c = "6" -> 6 [] c = "7" -> 7
      [] c = "8" -> 8 [] c = "9" -> 9

\* int(n) of a run of digits
RECURSIVE IntOf(_)
IntOf(run) ==
    IF run = <<>> THEN 0
    ELSE 10 * IntOf(SubSeq(run, 1, Len(run) - 1)) + DigitValue(run[Len(run)])

\* re.findall(r"\d+", raw): the maximal runs of digits of raw[i..], run
\* being the run that ends right before position i.
RECURSIVE FindAllDigits(_, _, _)
FindAllDigits(raw, i, run) ==
    IF i > Len(raw)
    THEN IF run = <<>> THEN <<>> ELSE <<run>>
    ELSE IF raw[i] \in Digits
         THEN FindAllDigits(raw, i + 1, Append(run, raw[i]))
         ELSE (IF run = <<>> THEN <<>> ELSE <<run>>)
              \o FindAllDigits(raw, i + 1, <<>>)

\* (C13) An index loop without the seen set: a repeated number is kept.
RECURSIVE ValidIndices_KeepRepeats(_, _, _)
ValidIndices_KeepRepeats(nums, k, n) ==
    IF k = 0 THEN <<>>
    ELSE LET sofar == ValidIndices_KeepRepeats(nums, k - 1, n)
             i == IntOf(nums[k]) - 1
         IN IF 0 <= i /\ i < n THEN Append(sofar, i) ELSE sofar

\* The loop over nums[1..k]: the zero-based indices in range, each once.
RECURSIVE ValidIndices(_, _, _)
ValidIndices(nums, k, n) ==
    IF k = 0 THEN <<>>
    ELSE LET sofar == ValidIndices(nums, k - 1, n)
             i == IntOf(nums[k]) - 1
         IN IF 0 <= i /\ i < n /\ \A m \in 1..Len(sofar) : sofar[m] # i
            THEN Append(sofar, i)
            ELSE sofar

\* (C12) A failure path that returns the head of the list.
OnSelectionFailure_Head(articles, max_articles) ==
    diversify_articles_Head(articles, max_articles).selected

\* The except branches of select_top_articles_with_ai.
OnSelectionFailure(articles, max_articles) ==
    diversify_articles(articles, max_articles).selected

\* What the selection oracle does when asked: it raises, it answers without
\* content, or it answers with text.
OracleOutcomes == {"raise", "empty", "reply"}

\* select_top_articles_with_ai.  Building the prompt reads article['source']
\* and raises KeyError, inside the try, when a candidate lacks it: the
\* oracle is not asked then.
select_top_articles_with_ai(articles, max_articles, oracle, reply) ==
    IF Len(articles) <= max_articles
    THEN [i \in 1..Len(articles) |-> TitleAndLink(articles[i])]
    ELSE IF \E i \in 1..Len(articles) : articles[i].source = Absent
         THEN OnSelectionFailure(articles, max_articles)
         ELSE IF oracle # "reply"
              THEN OnSelectionFailure(articles, max_articles)
              ELSE LET nums == FindAllDigits(reply, 1, <<>>)
                       selected_indices ==
                           ValidIndices(nums, Len(nums), Len(articles))
                       cut == Take(selected_indices, max_articles)
                   IN IF selected_indices = <<>>
                      THEN OnSelectionFailure(articles, max_articles)
                      ELSE [m \in 1..Len(cut) |->
                              TitleAndLink(articles[cut[m] + 1])]

VARIABLES
    now,        \* the UTC clock, in hours
    users,      \* the users table: id -> row
    user_feeds, \* the user_feeds table: its rows, in row order
    feed_seq,   \* the last id the user_feeds id sequence gave out
    http,       \* the response to the last request to the HTTP surface
    pass,       \* per entry point: the scheduling pass it is running
    send,       \* per entry point: the send_digest_to_user call in progress
    slackLog,   \* per user: the local dates for which a pass posted a digest
    sel         \* main.py's article selection: its arguments and results

vars == <<now, users, user_feeds, feed_seq, http, pass, send, slackLog, sel>>

\* ------------------------------------------------------------------ the store
\* The row INSERT INTO users writes; active and last_digest_sent take the
\* column defaults.
NewUserRow(email, slack_webhook_url, timezone, schedule_hour) ==
    [email |-> email,
     slack_webhook_url |-> slack_webhook_url,
     timezone |-> timezone,
     schedule_hour |-> schedule_hour,
     active |-> TRUE,
     last_digest_sent |-> <<>>]

\* The rows add_user inserts into user_feeds for a new user, the first of
\* them with id first_id.
DefaultFeedRows(u, first_id) ==
    [k \in 1..Len(RegistrationFeeds) |->
       [id |-> first_id + k - 1, user_id |-> u,
        feed_url |-> RegistrationFeeds[k], active |-> TRUE]]

\* The url column of a sequence of user_feeds rows.
RECURSIVE UrlsOf(_)
UrlsOf(rows) ==
    IF rows = <<>> THEN <<>> ELSE <<Head(rows).feed_url>> \o UrlsOf(Tail(rows))

\* get_user_feeds(user_id): the urls of the user's active rows, in row order
get_user_feeds(u) ==
    UrlsOf(SelectSeq(user_feeds, LAMBDA r : r.user_id = u /\ r.active))

\* No request has been answered yet.
NoResponse ==
    [op |-> "none", email |-> "none", slack_webhook_url |-> <<>>,
     schedule_hour |-> 0, user_id |-> "none", feed_url |-> "none",
     feed_id |-> 0, status |-> 0, detail |-> "none"]

\* No selection has been asked for.  given is the list as the caller built
\* it, articles the same list object as it is now.
IdleSel ==
    [phase |-> "idle", given |-> <<>>, articles |-> <<>>, max_articles |-> 0,
     oracle |-> "none", reply |-> <<>>, result |-> <<>>, again |-> <<>>,
     summary |-> "none", posted |-> FALSE]

\* -------------------------------------------------------------- eligibility
\* The dates are compared in UTC instead of the user's timezone.
should_send_digest_today_UtcDates(last, tz, tick) ==
    IF Len(last) = 0
    THEN TRUE
    ELSE last[1] \div HoursPerDay # tick \div HoursPerDay

\* should_send_digest_today(user, user_time): last is the row's
\* last_digest_sent as the pass read it, tick the pass's current_utc.
should_send_digest_today(last, tz, tick) ==
    IF Len(last) = 0
    THEN TRUE
    ELSE LocalDate(last[1], tz) # LocalDate(tick, tz)

\* The condition of the if in hourly_digest_check's loop body.
IsDue(row, last, tick) ==
    /\ LocalHour(tick, row.timezone) = row.schedule_hour
    /\ should_send_digest_today(last, row.timezone, tick)

\* get_all_active_users(): the ids of the active rows, in row order
get_all_active_users ==
    SelectSeq(UserOrder, LAMBDA u : u \in DOMAIN users /\ users[u].active)

\* ------------------------------------------------------------ record shapes
IdlePass ==
    [status |-> "idle", tick |-> 0, order |-> <<>>,
     snap |-> [u \in UserIds |-> <<>>], idx |-> 0,
     handed |-> {}, evaluated |-> {}, errors |-> {}]

IdleSend ==
    [pc |-> "idle", user |-> "none", world |-> "none", fetched |-> "none",
     feeds |-> <<>>, pool |-> <<>>,
     articles |-> <<>>, summary |-> "none",
     slack |-> "none", email |-> "none", stamped |-> FALSE, error |-> FALSE,
     overdue |-> FALSE]

\* The places of send_digest_to_user where the coroutine is inside a call.
InCall == {"fetch", "summarize", "post", "email", "update", "blocked"}

\* The awaits that really suspend: session.post and send_simple_email.
\* fetch_articles_for_user and summarize_articles are coroutines whose
\* bodies only make blocking calls.
SuspensionPoints == {"post", "email"}

Init ==
    /\ now = 0
    /\ users = [u \in UserIds |->
                  NewUserRow(u, SlackPrefix \o <<u>>, Registered[u].timezone,
                             Registered[u].schedule_hour)]
    /\ user_feeds = DefaultFeedRows("u0", 1) \o DefaultFeedRows("u1", 11)
    /\ feed_seq = 30
    /\ http = NoResponse
    /\ sel = IdleSel
    /\ pass = [p \in Procs |-> IdlePass]
    /\ send = [p \in Procs |-> IdleSend]
    /\ slackLog = [u \in UserIds |-> {}]

\* ------------------------------------------------------- hourly_digest_check
Running(p) == pass[p].status = "running"

\* The user the pass is at.
CurrentUser(q) == q.order[q.idx]

\* The loop moves on to the next user.
NextUser(q) ==
    [q EXCEPT !.idx = @ + 1, !.evaluated = @ \cup {CurrentUser(q)}]

\* The loop body without its except clauses: the exception leaves the loop.
OnUserException_Propagates(q) == [q EXCEPT !.status = "aborted"]

\* except Exception / except asyncio.TimeoutError in the loop body: the
\* error is printed and the loop goes on.
OnUserException(q) ==
    [NextUser(q) EXCEPT !.errors = @ \cup {CurrentUser(q)}]

\* users = get_all_active_users(); current_utc = datetime.now(pytz.UTC).
BeginPass(p) ==
    /\ pass[p].status = "idle"
    /\ pass' = [pass EXCEPT ![p] =
                  [IdlePass EXCEPT
                     !.status = "running",
                     !.tick = now,
                     !.order = get_all_active_users,
                     !.snap = [u \in UserIds |-> users[u].last_digest_sent],
                     !.idx = 1]]
    /\ UNCHANGED <<feed_seq, http, sel, now, users, user_feeds, send, slackLog>>

\* Passes run one after another: none starts while another is running.
StartPass(p) ==
    /\ \A q \in Procs : pass[q].status = "idle"
    /\ BeginPass(p)

AtUser(p) ==
    /\ Running(p)
    /\ send[p].pc = "idle"
    /\ pass[p].idx <= Len(pass[p].order)

\* pytz.timezone(user['timezone']) raises UnknownTimeZoneError.
CheckUserBadTimezone(p) ==
    /\ AtUser(p)
    /\ ~KnownTimezone(users[CurrentUser(pass[p])].timezone)
    /\ pass' = [pass EXCEPT ![p] = OnUserException(@)]
    /\ UNCHANGED <<feed_seq, http, sel, now, users, user_feeds, send, slackLog>>

\* The user is due: asyncio.wait_for(send_digest_to_user(user), 30.0) starts.
CheckUserDue(p) ==
    LET u == CurrentUser(pass[p]) IN
    /\ AtUser(p)
    /\ KnownTimezone(users[u].timezone)
    /\ IsDue(users[u], pass[p].snap[u], pass[p].tick)
    /\ pass' = [pass EXCEPT ![p].handed = @ \cup {u},
                            ![p].evaluated = @ \cup {u}]
    /\ send' = [send EXCEPT ![p] = [IdleSend EXCEPT !.pc = "fetch", !.user = u]]
    /\ UNCHANGED <<feed_seq, http, sel, now, users, user_feeds, slackLog>>

\* The else branch: the user is not due and is skipped.
CheckUserSkip(p) ==
    LET u == CurrentUser(pass[p]) IN
    /\ AtUser(p)
    /\ KnownTimezone(users[u].timezone)
    /\ ~IsDue(users[u], pass[p].snap[u], pass[p].tick)
    /\ pass' = [pass EXCEPT ![p] = NextUser(@)]
    /\ UNCHANGED <<feed_seq, http, sel, now, users, user_feeds, send, slackLog>>

\* wait_for returned: send_digest_to_user ran to its end (it catches every
\* Exception itself).
SendReturned(p) ==
    /\ Running(p)
    /\ send[p].pc = "done"
    /\ pass' = [pass EXCEPT ![p] =
                  IF send[p].error
                  THEN [NextUser(@) EXCEPT !.errors = @ \cup {send[p].user}]
                  ELSE NextUser(@)]
    /\ send' = [send EXCEPT ![p] = IdleSend]
    /\ UNCHANGED <<feed_seq, http, sel, now, users, user_feeds, slackLog>>

\* wait_for raised asyncio.TimeoutError.
SendTimedOut(p) ==
    /\ Running(p)
    /\ send[p].pc = "cancelled"
    /\ pass' = [pass EXCEPT ![p] = OnUserException(@)]
    /\ send' = [send EXCEPT ![p] = IdleSend]
    /\ UNCHANGED <<feed_seq, http, sel, now, users, user_feeds, slackLog>>

\* The loop is over: hourly_digest_check returns.
FinishPass(p) ==
    /\ Running(p)
    /\ send[p].pc = "idle"
    /\ pass[p].idx > Len(pass[p].order)
    /\ pass' = [pass EXCEPT ![p] = IdlePass]
    /\ UNCHANGED <<feed_seq, http, sel, now, users, user_feeds, send, slackLog>>

\* ------------------------------------------------------- send_digest_to_user
\* The timestamp is committed before the digest is sent.
SendOrder_StampFirst == <<"update", "post", "email">>

\* (C23) send_digest_to_user returns without update_last_digest_sent.
SendOrder_NoStamp == <<"post", "email">>

\* The calls that follow the summary, in program order: session.post,
\* send_simple_email, update_last_digest_sent.
SendOrder == <<"post", "email", "update">>

\* The place after pc in send_digest_to_user; the function returns after the
\* last call.
StepAfter(pc) ==
    LET i == CHOOSE k \in 1..Len(SendOrder) : SendOrder[k] = pc
    IN IF i = Len(SendOrder) THEN "done" ELSE SendOrder[i + 1]

\* The early return on an empty list is missing.
AfterFetch_NoEarlyReturn(articles) == "summarize"

\* if not articles: return
AfterFetch(articles) == IF articles = <<>> THEN "done" ELSE "summarize"

\* except Exception as e: print(...): the function returns normally.
Caught(d) == [d EXCEPT !.pc = "done", !.error = TRUE]

\* send_digest_to_user, called by a pass or by GET /trigger/{user_id}, is at pc.
Sending(p, pc) == pass[p].status \in {"running", "forced"} /\ send[p].pc = pc

\* fetch_articles_for_user returned a list.
FetchReturns(p) ==
    /\ Sending(p, "fetch")
    /\ \E w \in Worlds, stored \in {get_user_feeds(send[p].user)} :
         \E r \in {fetch_articles_for_user(stored, w)} :
         /\ r.outcome = "ok"
         /\ send' = [send EXCEPT ![p].world = w,
                                 ![p].fetched = r.outcome,
                                 ![p].feeds = r.feeds,
                                 ![p].pool = r.pool,
                                 ![p].articles = r.articles,
                                 ![p].pc = AfterFetch(r.articles)]
    /\ UNCHANGED <<feed_seq, http, sel, now, users, user_feeds, pass, slackLog>>

\* fetch_articles_for_user raised (an entry without a title).
FetchRaises(p) ==
    /\ Sending(p, "fetch")
    /\ \E w \in Worlds, stored \in {get_user_feeds(send[p].user)} :
         \E r \in {fetch_articles_for_user(stored, w)} :
         /\ r.outcome = "raise"
         /\ send' = [send EXCEPT ![p] = Caught([@ EXCEPT !.world = w,
                                                         !.fetched = r.outcome,
                                                         !.feeds = r.feeds,
                                                         !.pool = r.pool])]
    /\ UNCHANGED <<feed_seq, http, sel, now, users, user_feeds, pass, slackLog>>

\* A feed server never answers: feedparser.parse does not return.
FetchBlocks(p) ==
    /\ Sending(p, "fetch")
    /\ \E w \in Worlds, stored \in {get_user_feeds(send[p].user)} :
         \E r \in {fetch_articles_for_user(stored, w)} :
         /\ r.outcome = "hang"
         /\ send' = [send EXCEPT ![p].world = w,
                                 ![p].fetched = r.outcome,
                                 ![p].feeds = r.feeds,
                                 ![p].pc = "blocked"]
    /\ UNCHANGED <<feed_seq, http, sel, now, users, user_feeds, pass, slackLog>>

\* summarize_articles returned the oracle's text.
SummarizeOracle(p) ==
    /\ Sending(p, "summarize")
    /\ send' = [send EXCEPT ![p].summary = "oracle", ![p].pc = SendOrder[1]]
    /\ UNCHANGED <<feed_seq, http, sel, now, users, user_feeds, pass, slackLog>>

\* The oracle's text lacks the link markers: format_articles_with_links.
SummarizeLocal(p) ==
    /\ Sending(p, "summarize")
    /\ send' = [send EXCEPT ![p].summary = "local", ![p].pc = SendOrder[1]]
    /\ UNCHANGED <<feed_seq, http, sel, now, users, user_feeds, pass, slackLog>>

\* get_openai_client or client.chat.completions.create raised.
SummarizeRaises(p) ==
    /\ Sending(p, "summarize")
    /\ send' = [send EXCEPT ![p] = Caught([@ EXCEPT !.summary = "raised"])]
    /\ UNCHANGED <<feed_seq, http, sel, now, users, user_feeds, pass, slackLog>>

\* The digest reaches the user's Slack webhook.
Posted(u) ==
    [slackLog EXCEPT ![u] = @ \cup {LocalDate(now, users[u].timezone)}]

\* await session.post(...) returned.
PostOk(p) ==
    /\ Sending(p, "post")
    /\ send' = [send EXCEPT ![p].slack = "ok", ![p].pc = StepAfter("post")]
    /\ slackLog' = Posted(send[p].user)
    /\ UNCHANGED <<feed_seq, http, sel, now, users, user_feeds, pass>>

\* await session.post(...) raised (the webhook was not reached).
PostRaises(p) ==
    /\ Sending(p, "post")
    /\ send' = [send EXCEPT ![p] = Caught([@ EXCEPT !.slack = "failed"])]
    /\ UNCHANGED <<feed_seq, http, sel, now, users, user_feeds, pass, slackLog>>

\* await send_simple_email(...) returned.
EmailOk(p) ==
    /\ Sending(p, "email")
    /\ send' = [send EXCEPT ![p].email = "ok", ![p].pc = StepAfter("email")]
    /\ UNCHANGED <<feed_seq, http, sel, now, users, user_feeds, pass, slackLog>>

\* await send_simple_email(...) raised: the inner except prints and goes on.
EmailRaises(p) ==
    /\ Sending(p, "email")
    /\ send' = [send EXCEPT ![p].email = "failed", ![p].pc = StepAfter("email")]
    /\ UNCHANGED <<feed_seq, http, sel, now, users, user_feeds, pass, slackLog>>

\* (C28) An UPDATE without its WHERE clause: every row is stamped.
update_last_digest_sent_AllRows(u) ==
    [v \in DOMAIN users |-> [users[v] EXCEPT !.last_digest_sent = <<now>>]]

\* update_last_digest_sent(user['id']): SET last_digest_sent = CURRENT_TIMESTAMP
update_last_digest_sent(u) ==
    [users EXCEPT ![u].last_digest_sent = <<now>>]

UpdateLastSent(p) ==
    /\ Sending(p, "update")
    /\ users' = update_last_digest_sent(send[p].user)
    /\ send' = [send EXCEPT ![p].stamped = TRUE, ![p].pc = StepAfter("update")]
    /\ UNCHANGED <<feed_seq, http, sel, now, user_feeds, pass, slackLog>>

\* ------------------------------------------------------------ the 30 s timer
\* wait_for's timer runs out while send_digest_to_user is still running.
TimerExpires(p) ==
    /\ Running(p)
    /\ send[p].pc \in InCall
    /\ ~send[p].overdue
    /\ send' = [send EXCEPT ![p].overdue = TRUE]
    /\ UNCHANGED <<feed_seq, http, sel, now, users, user_feeds, pass, slackLog>>

\* The cancellation reaches the coroutine at an await that suspended.  A
\* POST that is cancelled while in flight may or may not have reached Slack.
CancelAtPost(p) ==
    /\ Sending(p, "post")
    /\ send[p].overdue
    /\ \E reached \in BOOLEAN :
         /\ send' = [send EXCEPT
                       ![p].slack = IF reached THEN "unacked" ELSE "cancelled",
                       ![p].pc = "cancelled"]
         /\ slackLog' = IF reached THEN Posted(send[p].user) ELSE slackLog
    /\ UNCHANGED <<feed_seq, http, sel, now, users, user_feeds, pass>>

CancelAtEmail(p) ==
    /\ Sending(p, "email")
    /\ send[p].overdue
    /\ send' = [send EXCEPT ![p].email = "cancelled", ![p].pc = "cancelled"]
    /\ UNCHANGED <<feed_seq, http, sel, now, users, user_feeds, pass, slackLog>>

\* An hour boundary passes.  An hour is longer than the timer, so a call in
\* progress has outlived it by then.
AdvanceClock ==
    /\ now < MaxNow
    /\ \A p \in Procs :
         Running(p) =>
           /\ now + 1 - pass[p].tick <= MaxPassHours
           /\ send[p].pc \in InCall => send[p].overdue
    /\ now' = now + 1
    /\ UNCHANGED <<feed_seq, http, sel, users, user_feeds, pass, send, slackLog>>

\* ------------------------------------------------------------ specification
PassStep(p) ==
    \/ StartPass(p)
    \/ CheckUserBadTimezone(p)
    \/ CheckUserDue(p)
    \/ CheckUserSkip(p)
    \/ SendReturned(p)
    \/ SendTimedOut(p)
    \/ FinishPass(p)

SendStep(p) ==
    \/ FetchReturns(p)
    \/ FetchRaises(p)
    \/ FetchBlocks(p)
    \/ SummarizeOracle(p)
    \/ SummarizeLocal(p)
    \/ SummarizeRaises(p)
    \/ PostOk(p)
    \/ PostRaises(p)
    \/ EmailOk(p)
    \/ EmailRaises(p)
    \/ UpdateLastSent(p)
    \/ TimerExpires(p)
    \/ CancelAtPost(p)
    \/ CancelAtEmail(p)

Next ==
    \/ AdvanceClock
    \/ \E p \in Procs : PassStep(p)
    \/ \E p \in Procs : SendStep(p)

Spec == Init /\ [][Next]_vars

\* The event loop runs every step of a pass and of a send that is enabled;
\* the timer and the cancellation are callbacks of the same loop.
FairSpec ==
    /\ Spec
    /\ \A p \in Procs : WF_vars(PassStep(p)) /\ WF_vars(SendStep(p))

\* ------------------------------------------- article selection, on its own
SourceLabels == {"A", "B", Absent}

\* Sources A,A,A,B,B,C.
SixSources == <<"A", "A", "A", "B", "B", "C">>

\* Twelve candidates of three sources.
TwelveSources ==
    <<"A", "A", "A", "A", "B", "B", "B", "B", "C", "C", "C", "C">>

\* Five candidates of one source and one of another.
LopsidedSources == <<"A", "A", "A", "A", "A", "B">>

CandidateLists ==
    {[i \in 1..Len(l) |-> Candidate(i, l[i])] :
        l \in UNION {[1..n -> SourceLabels] : n \in 0..MaxCands}
               \cup {SixSources, TwelveSources, LopsidedSources}}

Targets == 0..MaxTarget \cup {4, MaxArticles}

\* The reply "1,3, 7 and 12".
ExampleReply ==
    <<"1", ",", "3", ",", " ", "7", " ", "a", "n", "d", " ", "1", "2">>

ReplyAlphabet == {"0", "1", "2", ","}

Replies ==
    UNION {[1..n -> ReplyAlphabet] : n \in 0..MaxReplyLen} \cup {ExampleReply}

\* A caller has built a candidate list and chosen a target.
SelInit ==
    /\ sel \in {[IdleSel EXCEPT !.phase = "called", !.given = c,
                                !.articles = c, !.max_articles = t] :
                   c \in CandidateLists, t \in Targets}
    /\ now = 0
    /\ users = [u \in UserIds |->
                  NewUserRow(u, SlackPrefix \o <<u>>, Registered[u].timezone,
                             Registered[u].schedule_hour)]
    /\ user_feeds = DefaultFeedRows("u0", 1) \o DefaultFeedRows("u1", 11)
    /\ feed_seq = 30
    /\ http = NoResponse
    /\ pass = [p \in Procs |-> IdlePass]
    /\ send = [p \in Procs |-> IdleSend]
    /\ slackLog = [u \in UserIds |-> {}]

\* The oracle is asked when the list is longer than the target and the
\* prompt could be built.
OracleAsked ==
    /\ Len(sel.articles) > sel.max_articles
    /\ \A i \in 1..Len(sel.articles) : sel.articles[i].source # Absent

Selected(oracle, reply) ==
    /\ sel.phase = "called"
    /\ sel' = [sel EXCEPT
                 !.phase = "selected", !.oracle = oracle, !.reply = reply,
                 !.result = select_top_articles_with_ai(
                                sel.articles, sel.max_articles, oracle, reply)]
    /\ UNCHANGED <<now, users, user_feeds, feed_seq, http, pass, send, slackLog>>

\* select_top_articles_with_ai returns without asking the oracle.
SelectWithoutOracle == ~OracleAsked /\ Selected("none", <<>>)

\* client.chat.completions.create raises.
SelectOracleRaises == OracleAsked /\ Selected("raise", <<>>)

\* The oracle's message has no content.
SelectOracleEmpty == OracleAsked /\ Selected("empty", <<>>)

\* The oracle answers with text.
SelectOracleReplies == OracleAsked /\ \E reply \in Replies : Selected("reply", reply)

\* A caller calls diversify_articles on its list.
Diversify ==
    /\ sel.phase = "called"
    /\ LET d == diversify_articles(sel.articles, sel.max_articles)
       IN sel' = [sel EXCEPT !.phase = "diversified", !.result = d.selected,
                             !.articles = d.articles]
    /\ UNCHANGED <<now, users, user_feeds, feed_seq, http, pass, send, slackLog>>

\* The caller calls diversify_articles again, on the same list object.
DiversifyAgain ==
    /\ sel.phase = "diversified"
    /\ LET d == diversify_articles(sel.articles, sel.max_articles)
       IN sel' = [sel EXCEPT !.phase = "repeated", !.again = d.selected,
                             !.articles = d.articles]
    /\ UNCHANGED <<now, users, user_feeds, feed_seq, http, pass, send, slackLog>>

SelNext ==
    \/ SelectWithoutOracle
    \/ SelectOracleRaises
    \/ SelectOracleEmpty
    \/ SelectOracleReplies
    \/ Diversify
    \/ DiversifyAgain

SelSpec == SelInit /\ [][SelNext]_vars

\* ------------------------------------------------ the single-user job
\* fetch_articles has filled its pool from RSS_FEEDS.
JobInit ==
    /\ sel \in {[IdleSel EXCEPT !.phase = "called", !.given = c,
                                !.articles = c, !.max_articles = MaxArticles] :
                   c \in CandidateLists}
    /\ now = 0
    /\ users = <<>>
    /\ user_feeds = <<>>
    /\ feed_seq = 0
    /\ http = NoResponse
    /\ pass = [p \in Procs |-> IdlePass]
    /\ send = [p \in Procs |-> IdleSend]
    /\ slackLog = [u \in UserIds |-> {}]

\* What summarize_articles does with the list job hands it, whatever its
\* length: get_openai_client raises without OPENAI_API_KEY ("nokey"), the
\* chat completion raises ("raise"), or its text is returned, as it is
\* ("oracle") or reformatted by format_articles_with_links ("local").
SummaryOutcomes == {"nokey", "raise", "oracle", "local"}

\* The end of fetch_articles: the selection of a pool that has articles
\* (select_top_articles_with_ai with its default target), [] otherwise.
JobFetch ==
    /\ sel.phase = "called"
    /\ \E oracle \in OracleOutcomes :
         sel' = [sel EXCEPT
                   !.phase = "fetched",
                   !.oracle = IF OracleAsked THEN oracle ELSE "none",
                   !.result = IF sel.articles # <<>>
                              THEN select_top_articles_with_ai(
                                       sel.articles, sel.max_articles, oracle, <<>>)
                              ELSE <<>>]
    /\ UNCHANGED <<now, users, user_feeds, feed_seq, http, pass, send, slackLog>>

\* summary = await summarize_articles(articles): job has no try and no test
\* of the list; an exception ends it.
JobSummarize ==
    /\ sel.phase = "fetched"
    /\ \E outcome \in SummaryOutcomes :
         sel' = [sel EXCEPT !.summary = outcome,
                            !.phase = IF outcome \in {"nokey", "raise"}
                                      THEN "failed" ELSE "summarized"]
    /\ UNCHANGED <<now, users, user_feeds, feed_seq, http, pass, send, slackLog>>

\* await notify(summary): send_to_slack posts the text when
\* SLACK_WEBHOOK_URL is set and returns without posting when it is not.
JobNotify ==
    /\ sel.phase = "summarized"
    /\ \E webhook_set \in BOOLEAN :
         sel' = [sel EXCEPT !.posted = webhook_set, !.phase = "notified"]
    /\ UNCHANGED <<now, users, user_feeds, feed_seq, http, pass, send, slackLog>>

JobNext == JobFetch \/ JobSummarize \/ JobNotify

JobSpec == JobInit /\ [][JobNext]_vars

\* ------------------------------------------------------- the HTTP surface
\* The store of a deployment nobody has registered with.
StoreInit ==
    /\ users = <<>>
    /\ user_feeds = <<>>
    /\ feed_seq = 0
    /\ http = NoResponse
    /\ now = 0
    /\ sel = IdleSel
    /\ pass = [p \in Procs |-> IdlePass]
    /\ send = [p \in Procs |-> IdleSend]
    /\ slackLog = [u \in UserIds |-> {}]

\* What the forms are filled with.
EmailInputs == {"a@x", "b@x"}

WebhookInputs ==
    {SlackPrefix \o <<"services/T1">>,
     <<"https://", "hooks.slack.com.evil.example", "/", "services/T1">>}

HourInputs == {-1, 0, 23, 24}

FeedUrlInputs ==
    {RegistrationFeeds[1], "http://new.example/rss", "ftp://files.example/rss"}

\* The scheme a feed url starts with.
SchemeOf(url) ==
    IF url = "ftp://files.example/rss" THEN "ftp://"
    ELSE IF url = "http://new.example/rss" THEN "http://"
    ELSE "https://"

\* The response to a request, with the form fields it carried.
Response(op, email, webhook, hour, status) ==
    [NoResponse EXCEPT !.op = op, !.email = email,
                       !.slack_webhook_url = webhook,
                       !.schedule_hour = hour, !.status = status]

\* The response to a request about the feeds of user u, with its path and
\* form fields and the detail of the HTTPException.
FeedsResponse(op, u, feed_url, feed_id, status, detail) ==
    [NoResponse EXCEPT !.op = op, !.user_id = u, !.feed_url = feed_url,
                       !.feed_id = feed_id, !.status = status,
                       !.detail = detail]

\* (C20) A handler that checks the webhook url only.
FormIsValid_AnyHour(slack_webhook_url, schedule_hour) ==
    StartsWith(slack_webhook_url, SlackPrefix)

\* The two checks of register_user.
FormIsValid(slack_webhook_url, schedule_hour) ==
    /\ StartsWith(slack_webhook_url, SlackPrefix)
    /\ 0 <= schedule_hour /\ schedule_hour <= 23

\* str(uuid.uuid4())
FreshId ==
    UserOrder[CHOOSE k \in 1..Len(UserOrder) :
                /\ UserOrder[k] \notin DOMAIN users
                /\ \A h \in 1..(k - 1) : UserOrder[h] \in DOMAIN users]

\* The ids add_user_feed has taken from the id sequence.
TakenByAddFeed ==
    feed_seq - Len(RegistrationFeeds) * Cardinality(DOMAIN users)

\* The UNIQUE constraint on users.email fails the INSERT.
EmailExists(email) == \E u \in DOMAIN users : users[u].email = email

\* POST /register.  The HTTPException(400) the two checks raise is raised
\* inside the try, is not a ValueError, and is caught by except Exception,
\* which raises HTTPException(500); the ValueError of add_user for an email
\* that exists becomes HTTPException(400).  add_user commits the user row
\* and the default feeds together; uuid4 gives an id no row has, here the
\* first of UserOrder that is free.
Register ==
    \E email \in EmailInputs, webhook \in WebhookInputs, hour \in HourInputs,
       timezone \in {"UTC"} :
        IF ~FormIsValid(webhook, hour)
        THEN /\ http' = Response("register", email, webhook, hour, 500)
             /\ UNCHANGED <<users, user_feeds, feed_seq>>
             /\ UNCHANGED <<now, sel, pass, send, slackLog>>
        ELSE IF EmailExists(email)
        THEN /\ http' = Response("register", email, webhook, hour, 400)
             /\ UNCHANGED <<users, user_feeds, feed_seq>>
             /\ UNCHANGED <<now, sel, pass, send, slackLog>>
        ELSE \E u \in {FreshId} :
             /\ users' = [x \in DOMAIN users \cup {u} |->
                             IF x = u
                             THEN NewUserRow(email, webhook, timezone, hour)
                             ELSE users[x]]
             /\ user_feeds' = user_feeds \o DefaultFeedRows(u, feed_seq + 1)
             /\ feed_seq' = feed_seq + Len(RegistrationFeeds)
             /\ http' = Response("register", email, webhook, hour, 303)
             /\ UNCHANGED <<now, sel, pass, send, slackLog>>

\* (C21) A table without UNIQUE(user_id, feed_url): every INSERT succeeds.
add_user_feed_NoConstraint(u, feed_url) ==
    [success |-> TRUE,
     rows |-> Append(user_feeds,
                     [id |-> feed_seq + 1, user_id |-> u,
                      feed_url |-> feed_url, active |-> TRUE])]

\* add_user_feed: the INSERT takes the next id of the sequence, also when
\* UNIQUE(user_id, feed_url) then fails it.
add_user_feed(u, feed_url) ==
    IF \E k \in 1..Len(user_feeds) :
          user_feeds[k].user_id = u /\ user_feeds[k].feed_url = feed_url
    THEN [success |-> FALSE, rows |-> user_feeds]
    ELSE [success |-> TRUE,
          rows |-> Append(user_feeds,
                          [id |-> feed_seq + 1, user_id |-> u,
                           feed_url |-> feed_url, active |-> TRUE])]

\* POST /manage/{user_id}/add-feed
AddFeed ==
    \E u \in UserIds, feed_url \in FeedUrlInputs :
        IF u \notin DOMAIN users
        THEN /\ http' = FeedsResponse("add_feed", u, feed_url, 0, 404,
                                      "User not found")
             /\ UNCHANGED <<users, user_feeds, feed_seq>>
             /\ UNCHANGED <<now, sel, pass, send, slackLog>>
        ELSE IF SchemeOf(feed_url) \notin {"http://", "https://"}
        THEN /\ http' = FeedsResponse("add_feed", u, feed_url, 0, 400,
                                      "Invalid feed URL")
             /\ UNCHANGED <<users, user_feeds, feed_seq>>
             /\ UNCHANGED <<now, sel, pass, send, slackLog>>
        ELSE /\ TakenByAddFeed < MaxAdded
             /\ user_feeds' = add_user_feed(u, feed_url).rows
             /\ feed_seq' = feed_seq + 1
             /\ http' = IF add_user_feed(u, feed_url).success
                        THEN FeedsResponse("add_feed", u, feed_url, 0, 303,
                                           "none")
                        ELSE FeedsResponse("add_feed", u, feed_url, 0, 400,
                                           "Feed already exists")
             /\ UNCHANGED <<users, now, sel, pass, send, slackLog>>

\* (C29) DELETE FROM user_feeds WHERE id = feed_id
remove_user_feed_AnyOwner(u, feed_id) ==
    SelectSeq(user_feeds, LAMBDA r : r.id # feed_id)

\* remove_user_feed: DELETE FROM user_feeds WHERE id = feed_id AND user_id = u
remove_user_feed(u, feed_id) ==
    SelectSeq(user_feeds, LAMBDA r : ~(r.id = feed_id /\ r.user_id = u))

\* The feed ids a request may name: the first row of the first user, and
\* the row that follows the first user's default feeds.
FeedIdInputs == {1, Len(RegistrationFeeds) + 1}

\* POST /manage/{user_id}/remove-feed/{feed_id}
RemoveFeed ==
    \E u \in UserIds, feed_id \in FeedIdInputs :
        /\ http' = IF u \notin DOMAIN users
                   THEN FeedsResponse("remove_feed", u, "none", feed_id, 404,
                                      "User not found")
                   ELSE IF remove_user_feed(u, feed_id) = user_feeds
                   THEN FeedsResponse("remove_feed", u, "none", feed_id, 404,
                                      "Feed not found")
                   ELSE FeedsResponse("remove_feed", u, "none", feed_id, 303,
                                      "none")
        /\ user_feeds' = IF u \in DOMAIN users
                         THEN remove_user_feed(u, feed_id) ELSE user_feeds
        /\ UNCHANGED <<users, feed_seq, now, sel, pass, send, slackLog>>

\* GET /trigger/{user_id}, as the store sees it: send_digest_to_user either
\* gets as far as update_last_digest_sent or returns before it; it catches
\* what it raises, so the handler answers 200 both times.
TriggerUser ==
    \E u \in UserIds, delivered \in BOOLEAN :
        IF u \notin DOMAIN users
        THEN /\ http' = FeedsResponse("trigger", "none", "none", 0, 404,
                                      "User not found")
             /\ UNCHANGED <<users, user_feeds, feed_seq>>
             /\ UNCHANGED <<now, sel, pass, send, slackLog>>
        ELSE /\ users' = IF delivered THEN update_last_digest_sent(u) ELSE users
             /\ http' = FeedsResponse("trigger", "none", "none", 0, 200,
                                      "none")
             /\ UNCHANGED <<user_feeds, feed_seq, now, sel, pass, send, slackLog>>

StoreNext ==
    \/ Register
    \/ AddFeed
    \/ RemoveFeed
    \/ TriggerUser

StoreSpec == StoreInit /\ [][StoreNext]_vars

\* --------------------------- GET /trigger/{user_id} and overlapping passes
\* The scheduler's thread and the requests the event loop serves run side by
\* side: nothing keeps a pass from starting while another is running.
StartOverlappingPass(p) == BeginPass(p)

\* An operator has deactivated u2: active is a column the code reads and
\* never writes.
Deactivated == {"u2"}

\* The tick at which u1 is due on the second day.
FirstDueTick ==
    HoursPerDay + Registered["u1"].schedule_hour
        - TzOffset[Registered["u1"].timezone]

\* The hour before u1 is due, or the hour u1 is due.
TrigInit ==
    /\ now \in {FirstDueTick - 1, FirstDueTick}
    /\ users = [u \in UserIds |->
                  [NewUserRow(u, SlackPrefix \o <<u>>, Registered[u].timezone,
                              Registered[u].schedule_hour)
                     EXCEPT !.active = u \notin Deactivated]]
    /\ user_feeds = DefaultFeedRows("u0", 1) \o DefaultFeedRows("u1", 11)
    /\ feed_seq = 30
    /\ http = NoResponse
    /\ sel = IdleSel
    /\ pass = [p \in Procs |-> IdlePass]
    /\ send = [p \in Procs |-> IdleSend]
    /\ slackLog = [u \in UserIds |-> {}]

\* The ids GET /trigger/{user_id} is called with.
TriggerInputs == {"u1", "u2", "nobody"}

\* get_user_by_id(user_id): the row, whatever its active flag
get_user_by_id(u) == IF u \in DOMAIN users THEN <<u>> ELSE <<>>

\* GET /trigger/{id}: the user exists and await send_digest_to_user(user)
\* starts, without wait_for.
ForceSend(p, id) ==
    /\ p = "http"
    /\ pass[p].status = "idle"
    /\ get_user_by_id(id) # <<>>
    /\ pass' = [pass EXCEPT ![p].status = "forced"]
    /\ send' = [send EXCEPT ![p] =
                  [IdleSend EXCEPT !.pc = "fetch", !.user = id]]
    /\ UNCHANGED <<feed_seq, http, sel, now, users, user_feeds, slackLog>>

TriggerUserStart(p) == \E id \in TriggerInputs : ForceSend(p, id)

\* GET /trigger/{user_id}: raise HTTPException(status_code=404)
TriggerUserNotFound(p) ==
    /\ p = "http"
    /\ pass[p].status = "idle"
    /\ \E id \in TriggerInputs :
         /\ get_user_by_id(id) = <<>>
         /\ http' = FeedsResponse("trigger", id, "none", 0, 404,
                                   "User not found")
    /\ UNCHANGED <<feed_seq, sel, now, users, user_feeds, pass, send, slackLog>>

\* send_digest_to_user returned (it catches what it raises):
\* return {"message": f"Digest sent to {user['email']}"}
TriggerUserReturns(p) ==
    /\ pass[p].status = "forced"
    /\ send[p].pc = "done"
    /\ http' = FeedsResponse("trigger", send[p].user, "none", 0, 200,
                              "Digest sent")
    /\ pass' = [pass EXCEPT ![p] = IdlePass]
    /\ send' = [send EXCEPT ![p] = IdleSend]
    /\ UNCHANGED <<feed_seq, sel, now, users, user_feeds, slackLog>>

OverlappingPassStep(p) ==
    \/ StartOverlappingPass(p)
    \/ CheckUserBadTimezone(p)
    \/ CheckUserDue(p)
    \/ CheckUserSkip(p)
    \/ SendReturned(p)
    \/ SendTimedOut(p)
    \/ FinishPass(p)

TriggerUserStep(p) ==
    \/ TriggerUserStart(p)
    \/ TriggerUserNotFound(p)
    \/ TriggerUserReturns(p)

\* What the feed servers answer during this hour: they serve their entries,
\* serve one without a title, or one of them never answers.
HourWorlds == {"fresh", "untitled", "stalled"}

\* A step of send_digest_to_user during this hour.
HourSendStep(p) ==
    /\ SendStep(p)
    /\ send'[p].world \in HourWorlds \cup {IdleSend.world}

\* The steps of one hour.
TrigNext ==
    \/ \E p \in Procs : OverlappingPassStep(p)
    \/ \E p \in Procs : TriggerUserStep(p)
    \/ \E p \in Procs : HourSendStep(p)

TrigSpec == TrigInit /\ [][TrigNext]_vars

\* ------------------------------------------------------------------- claims
TzOf(u) == users[u].timezone

\* The eligibility rule as the specification states it, for user u whose
\* row held last when the pass read it at tick.
DueByRule(u, last, tick) ==
    /\ KnownTimezone(TzOf(u))
    /\ (tick + TzOffset[TzOf(u)]) % HoursPerDay = users[u].schedule_hour
    /\ \/ last = <<>>
       \/ (last[1] + TzOffset[TzOf(u)]) \div HoursPerDay
            # (tick + TzOffset[TzOf(u)]) \div HoursPerDay

\* C1: in a pass at tick T, a user the pass has evaluated was handed to
\* delivery if and only if the user's local hour at T is the schedule hour
\* and last_digest_sent is null or falls on another local date than T.
C1_SelectedIffDue ==
    \A p \in Procs :
      Running(p) =>
        \A u \in pass[p].evaluated :
          (u \in pass[p].handed) <=> DueByRule(u, pass[p].snap[u], pass[p].tick)

\* In one pass, a user who got a digest on an earlier local date is handed
\* to delivery again, and a user whose local hour matches is skipped because
\* the last digest falls on the local date of the tick.
C1_Witness ==
    \E p \in Procs :
      /\ Running(p)
      /\ \E u \in pass[p].handed : pass[p].snap[u] # <<>>
      /\ \E v \in pass[p].evaluated \ pass[p].handed :
           /\ KnownTimezone(TzOf(v))
           /\ LocalHour(pass[p].tick, TzOf(v)) = users[v].schedule_hour

\* C2: a pass posts a digest to a user's webhook only if no pass has posted
\* one to that user on the local date its tick falls on.
C2_OncePerLocalDate ==
    [][\A p \in Procs :
         (send[p].slack = "none" /\ send'[p].slack \in {"ok", "unacked"}) =>
           LocalDate(pass[p].tick, TzOf(send[p].user))
             \notin slackLog[send[p].user]]_vars

\* C3: no pass is ended by a user's failure: it is idle or running, every
\* user whose processing failed or timed out has been passed, and every
\* user before the current one has been evaluated.
C3_FailureIsolated ==
    \A p \in Procs :
      /\ pass[p].status \in {"idle", "running"}
      /\ Running(p) =>
           \A j \in 1..Len(pass[p].order) :
             /\ pass[p].order[j] \in pass[p].errors => j < pass[p].idx
             /\ j < pass[p].idx => pass[p].order[j] \in pass[p].evaluated

\* A user's delivery timed out and a later user of the same pass is being
\* delivered to.
C3_Witness ==
    \E p \in Procs :
      /\ Running(p)
      /\ {"u0", "u1"} \subseteq pass[p].errors
      /\ send[p].user = "u2"
      /\ send[p].pc = "post"

\* C4: every pass terminates.
C4_PassTerminates ==
    \A p \in Procs : Running(p) ~> ~Running(p)

\* A send that returned with a summary in hand.
Dispatched(p) ==
    /\ send[p].pc = "done"
    /\ send[p].summary \in {"oracle", "local"}

\* C5: when send_digest_to_user returns with a summary in hand, both the
\* Slack POST and the email send have been attempted.
C5_ChannelsIndependent ==
    \A p \in Procs :
      Dispatched(p) => send[p].slack # "none" /\ send[p].email # "none"

\* C6: when send_digest_to_user returns with a summary in hand, it has set
\* the user's last_digest_sent, whatever the channels' outcomes.
C6_StampOnDispatch ==
    \A p \in Procs :
      Dispatched(p) =>
        /\ send[p].stamped
        /\ users[send[p].user].last_digest_sent # <<>>

\* C7: a delivery cancelled by the timeout has not written last_digest_sent:
\* the row still holds what the pass read.
C7_TimeoutNoCommit ==
    \A p \in Procs :
      send[p].pc = "cancelled" =>
        /\ ~send[p].stamped
        /\ users[send[p].user].last_digest_sent = pass[p].snap[send[p].user]

\* A delivery cancelled at its last suspension point, the email send.
C7_Witness ==
    \E p \in Procs :
      /\ send[p].pc = "cancelled"
      /\ send[p].slack = "ok"
      /\ send[p].email = "cancelled"

\* C8: past the fetch, a send with an empty article list has returned
\* without a summary, a Slack POST, an email or a write of last_digest_sent.
C8_EmptyIsNoOp ==
    \A p \in Procs :
      (send[p].pc \in {"summarize", "post", "email", "update", "done", "cancelled"}
         /\ send[p].articles = <<>>) =>
        /\ send[p].pc = "done"
        /\ send[p].summary = "none"
        /\ send[p].slack = "none"
        /\ send[p].email = "none"
        /\ ~send[p].stamped
        /\ users[send[p].user].last_digest_sent = pass[p].snap[send[p].user]

\* The fetch returned an empty list and the send returned.
C8_Witness ==
    \E p \in Procs :
      /\ send[p].pc = "done"
      /\ send[p].articles = <<>>
      /\ ~send[p].error

\* C9: a send whose summarization call raised still posts the digest.
C9_OracleFailureFallsBack ==
    \A p \in Procs :
      (send[p].pc = "done" /\ send[p].summary = "raised") =>
        send[p].slack # "none"

\* C10: the article list of a send holds no link twice.
C10_DistinctLinks ==
    \A p \in Procs :
      \A i, j \in 1..Len(send[p].articles) :
        i # j => send[p].articles[i].link # send[p].articles[j].link

\* ------------------------------------------------------ claims C11, C16-C18
\* The calls of fetch_articles_for_user whose loop ran to its end.
Collected(p) == send[p].fetched \in {"ok", "raise"}

\* What the feed at position i of the call's feed list answered.
ResponseAt(p, i) == FeedResponse(send[p].world, send[p].feeds[i])

\* The feeds of the call that yielded at least one entry.
Yielding(p) ==
    {i \in 1..Len(send[p].feeds) :
       ResponseAt(p, i).status = "ok" /\ ResponseAt(p, i).entries # <<>>}

\* The links of the entries the feed at position i served.
LinksAt(p, i) ==
    {ResponseAt(p, i).entries[k].link : k \in 1..Len(ResponseAt(p, i).entries)}

\* How many of the delivered articles the feed at position i served.
Contribution(p, i) ==
    Cardinality({k \in 1..Len(send[p].articles) :
                   send[p].articles[k].link \in LinksAt(p, i)})

\* The feed at position i served an entry that was not delivered.
HasUnselected(p, i) ==
    \E l \in LinksAt(p, i) :
        \A k \in 1..Len(send[p].articles) : send[p].articles[k].link # l

Titled(seq) == \A k \in 1..Len(seq) : seq[k].title # Absent

IsPrefix(a, b) == Len(a) <= Len(b) /\ a = SubSeq(b, 1, Len(a))

\* C11: when the pool of a per-user fetch holds more than 12 entries, the 12
\* delivered are spread over the sources: every feed that yielded an entry
\* has one among them (the user having at most 12 such feeds), and no feed
\* has two more than a feed that still has an entry left out.
C11_SelectionDiversified ==
    \A p \in Procs :
        (send[p].fetched = "ok" /\ Len(send[p].pool) > 12) =>
            /\ Cardinality(Yielding(p)) <= 12 =>
                  \A i \in Yielding(p) : Contribution(p, i) >= 1
            /\ \A i, j \in Yielding(p) :
                  HasUnselected(p, j) => Contribution(p, i) < Contribution(p, j) + 2

\* C16: an entry without a title is skipped alone: the fetch returns, and
\* every titled entry among the first 12 of the pool is in the list it
\* returns.
C16_UntitledSkippedAlone ==
    \A p \in Procs :
        (Collected(p) /\ ~Titled(send[p].pool)) =>
            /\ send[p].fetched = "ok"
            /\ \A k \in 1..Len(send[p].pool) :
                  (k <= 12 /\ send[p].pool[k].title # Absent) =>
                      \E m \in 1..Len(send[p].articles) :
                          send[p].articles[m].link = send[p].pool[k].link

\* C17: when fetching one feed raises, the loop still runs to its end, the
\* pool holds the first entries of every other feed, in feed order, and the
\* fetch returns normally unless it stops for a reason of its own (an entry
\* without a title).
C17_FeedFailureContained ==
    \A p \in Procs :
        (send[p].fetched # "none" /\
         \E i \in 1..Len(send[p].feeds) : ResponseAt(p, i).status = "error") =>
            /\ Collected(p)
            /\ Titled(send[p].pool) => send[p].fetched = "ok"
            /\ \A i \in Yielding(p) :
                  \E at \in 0..Len(send[p].pool) :
                      /\ at + 1 <= Len(send[p].pool)
                      /\ send[p].pool[at + 1] = ResponseAt(p, i).entries[1]
                      /\ \A j \in Yielding(p) :
                            j < i => \E b \in 1..at :
                                send[p].pool[b] = ResponseAt(p, j).entries[1]

\* A fetch in which a feed between two answering feeds raised, returned with
\* the entries of the feeds on both sides.
C17_Witness ==
    \E p \in Procs :
        /\ send[p].fetched = "ok"
        /\ \E i, j, k \in 1..Len(send[p].feeds) :
              /\ i < j /\ j < k
              /\ ResponseAt(p, j).status = "error"
              /\ i \in Yielding(p) /\ k \in Yielding(p)
              /\ \E a, b \in 1..Len(send[p].articles) :
                    /\ send[p].articles[a].link \in LinksAt(p, i)
                    /\ send[p].articles[b].link \in LinksAt(p, k)

\* The entries of a sequence that carry a link of the feed url itself.
OwnEntries(seq, url) == SelectSeq(seq, LAMBDA e : e.link[1] = url)

\* C18: the pool holds at most 3 entries of any one feed, the first 3 in
\* feed order, and the list handed to summarization and delivery holds at
\* most 12 articles.
C18_PoolAndListCapped ==
    \A p \in Procs :
        /\ Len(send[p].articles) <= 12
        /\ Collected(p) =>
              /\ Len(send[p].pool) <= 3 * Len(send[p].feeds)
              /\ \A i \in 1..Len(send[p].feeds) :
                    LET url == send[p].feeds[i]
                        got == OwnEntries(send[p].pool, url)
                        served == OwnEntries(ResponseAt(p, i).entries, url)
                    IN /\ Len(got) <= 3
                       /\ IsPrefix(got, served)
                       /\ Len(got) = 3 \/ Len(got) = Len(served)

\* A feed served 4 entries, the pool holds 3 of them, and of a pool of more
\* than 12 entries 12 were handed to summarization.
C18_Witness ==
    \E p \in Procs :
        /\ send[p].pc \in {"summarize", "post"}
        /\ Len(send[p].pool) > 12 /\ Len(send[p].articles) = 12
        /\ \E i \in 1..Len(send[p].feeds) :
              /\ Len(ResponseAt(p, i).entries) = 4
              /\ Len(OwnEntries(send[p].pool, send[p].feeds[i])) = 3

\* ------------------------------------------------------------ claims C12-C15
\* The integers embedded in the oracle's reply, in order.
RepliedInts ==
    LET nums == FindAllDigits(sel.reply, 1, <<>>)
    IN [k \in 1..Len(nums) |-> IntOf(nums[k])]

\* The places of the reply's integers that name a candidate for the first
\* time.
FirstInRange ==
    {j \in 1..Len(RepliedInts) :
       /\ 1 <= RepliedInts[j] /\ RepliedInts[j] <= Len(sel.given)
       /\ \A h \in 1..(j - 1) : RepliedInts[h] # RepliedInts[j]}

Smaller(a, b) == IF a < b THEN a ELSE b

\* The result is the candidates the reply names: those at zero-based
\* positions r - 1 for the integers r in 1..N, in order of first occurrence,
\* each once, cut to the target.
ResultIsNamed ==
    /\ Len(sel.result) = Smaller(sel.max_articles, Cardinality(FirstInRange))
    /\ \A m \in 1..Len(sel.result) :
          \E j \in FirstInRange :
              /\ Cardinality({h \in FirstInRange : h < j}) = m - 1
              /\ sel.result[m].link = RepliedInts[j] - 1
              /\ sel.result[m] = TitleAndLink(sel.given[RepliedInts[j]])

\* The selection of a list longer than the target whose oracle raised, or
\* answered nothing that names a candidate.
OracleFailed ==
    /\ sel.phase = "selected"
    /\ Len(sel.given) > sel.max_articles
    /\ \/ sel.oracle \in {"raise", "empty"}
       \/ sel.oracle = "reply" /\ FirstInRange = {}

\* The rank of the candidate at position i among those of its source, and
\* the position at which its source first appears.
RankInSource(i) ==
    Cardinality({h \in 1..(i - 1) : SourceOf(sel.given[h]) = SourceOf(sel.given[i])})

FirstOfSource(i) ==
    CHOOSE h \in 1..i :
        /\ SourceOf(sel.given[h]) = SourceOf(sel.given[i])
        /\ \A g \in 1..(h - 1) : SourceOf(sel.given[g]) # SourceOf(sel.given[i])

\* Candidate h is emitted before candidate i: in an earlier round, or in
\* the same round from an earlier bucket.
EmittedBefore(h, i) ==
    \/ RankInSource(h) < RankInSource(i)
    \/ RankInSource(h) = RankInSource(i) /\ FirstOfSource(h) < FirstOfSource(i)

\* seq is the round-robin emission of the given list, cut at the target.
IsRoundRobin(seq) ==
    /\ Len(seq) = Smaller(sel.max_articles, Len(sel.given))
    /\ \A i \in 1..Len(sel.given) :
          LET at == Cardinality({h \in 1..Len(sel.given) : EmittedBefore(h, i)}) + 1
          IN at <= Len(seq) => seq[at] = TitleAndLink(sel.given[i])

\* C12: for a list longer than the target, when the oracle call raises or
\* its reply names no candidate, select_top_articles_with_ai returns what
\* diversify_articles returns for the same list and target.
C12_FailureFallsBackToDiversify ==
    OracleFailed => IsRoundRobin(sel.result)

\* The oracle raised, or named nothing in range, for a list whose
\* round-robin selection differs from its head.
C12_Witness ==
    /\ OracleFailed
    /\ sel.result # <<>>
    /\ \E m \in 1..Len(sel.result) : sel.result[m].link # m - 1

\* C13 as stated: for N > target candidates and a reply with integers
\* r1..rk, the result is the candidates at zero-based positions ri - 1 for
\* 1 <= ri <= N, in order of first occurrence, each once, cut to the target.
C13_ReplyNamesResult ==
    (sel.phase = "selected" /\ sel.oracle = "reply") => ResultIsNamed

\* C13, amended: the same, provided at least one ri is in 1..N.
C13_ReplyInRangeNamesResult ==
    (sel.phase = "selected" /\ sel.oracle = "reply" /\ FirstInRange # {}) =>
        ResultIsNamed

\* The reply "1,3, 7 and 12" for 12 candidates and target 4 selected the
\* candidates at positions 0, 2, 6 and 11.
C13_Witness ==
    /\ sel.phase = "selected" /\ sel.oracle = "reply"
    /\ sel.reply = ExampleReply
    /\ Len(sel.given) = 12 /\ sel.max_articles = 4
    /\ [m \in 1..Len(sel.result) |-> sel.result[m].link] = <<0, 2, 6, 11>>

\* C14: diversify_articles buckets the candidates by source in order of
\* first appearance and emits them in rounds, the earliest unconsumed
\* candidate of each non-exhausted bucket in bucket order, until the target
\* is reached or every bucket is empty.
C14_RoundRobin ==
    sel.phase = "diversified" => IsRoundRobin(sel.result)

\* Sources A,A,A,B,B,C with target 4 gave A,B,C,A: positions 0, 3, 5, 1.
C14_Witness ==
    /\ sel.phase = "diversified"
    /\ [i \in 1..Len(sel.given) |-> sel.given[i].source] = SixSources
    /\ sel.max_articles = 4
    /\ [m \in 1..Len(sel.result) |-> sel.result[m].link] = <<0, 3, 5, 1>>

RegisterAnswered == http'.op = "register" /\ (http' # http \/ users' # users)

\* C19: a registration whose webhook url does not start with
\* https://hooks.slack.com/, whose hour is outside 0..23 or whose email is
\* already stored is answered with HTTP 400 and leaves the store as it was:
\* no user row, no default feeds.
C19_RejectedWith400 ==
    [][(RegisterAnswered /\
        (\/ ~StartsWith(http'.slack_webhook_url, SlackPrefix)
         \/ http'.schedule_hour < 0 \/ http'.schedule_hour > 23
         \/ \E u \in DOMAIN users : users[u].email = http'.email)) =>
            /\ http'.status = 400
            /\ users' = users
            /\ user_feeds' = user_feeds]_vars

\* C20: every stored user has an email no other stored user has, a
\* schedule_hour in 0..23 and a webhook url that starts with
\* https://hooks.slack.com/.
C20_StoredUsersValid ==
    \A u \in DOMAIN users :
        /\ \A v \in DOMAIN users : users[v].email = users[u].email => v = u
        /\ users[u].schedule_hour \in 0..23
        /\ StartsWith(users[u].slack_webhook_url, SlackPrefix)

\* Two users are stored, one of them has had a delivery and lost a feed,
\* and a registration has just been turned down.
C20_Witness ==
    /\ Cardinality(DOMAIN users) = 2
    /\ \E u \in DOMAIN users :
          /\ users[u].last_digest_sent # <<>>
          /\ Len(get_user_feeds(u)) < Len(RegistrationFeeds)
    /\ http.op = "register" /\ http.status # 303

\* -------------------------------------------------------------- claim C26
\* The source labels of the given candidates.
GivenSources == {SourceOf(sel.given[i]) : i \in 1..Len(sel.given)}

\* The positions of the given candidates of source s, and those of them the
\* result holds.
PositionsOf(s) == {i \in 1..Len(sel.given) : SourceOf(sel.given[i]) = s}

SelectedOf(s) ==
    {i \in PositionsOf(s) :
       \E m \in 1..Len(sel.result) : sel.result[m] = TitleAndLink(sel.given[i])}

\* C26: for every candidate list and target >= 0, diversify_articles
\* returns exactly min(target, number of candidates) articles, each
\* candidate at most once, and for any two sources s and t the number
\* selected from s exceeds the number selected from t by at most 1 unless
\* every candidate of t has been selected.
C26_CountAndBalance ==
    sel.phase = "diversified" =>
        /\ Len(sel.result) = Smaller(sel.max_articles, Len(sel.given))
        /\ \A m, n \in 1..Len(sel.result) :
              sel.result[m] = sel.result[n] => m = n
        /\ \A m \in 1..Len(sel.result) :
              \E i \in 1..Len(sel.given) :
                  sel.result[m] = TitleAndLink(sel.given[i])
        /\ \A s, t \in GivenSources :
              \/ Cardinality(SelectedOf(s)) <= Cardinality(SelectedOf(t)) + 1
              \/ SelectedOf(t) = PositionsOf(t)

\* A target below the number of candidates was reached, and a source that
\* ran out of candidates is more than one article behind another.
C26_Witness ==
    /\ sel.phase = "diversified"
    /\ Len(sel.result) = sel.max_articles /\ Len(sel.given) > sel.max_articles
    /\ \E s, t \in GivenSources :
          /\ Cardinality(SelectedOf(s)) > Cardinality(SelectedOf(t)) + 1
          /\ SelectedOf(t) = PositionsOf(t)

\* ------------------------------------------------------- claims C21 and C29
\* The rows of user u.
RowsOf(rows, u) == SelectSeq(rows, LAMBDA r : r.user_id = u)

\* A POST .../add-feed, or a POST .../remove-feed/{feed_id}, has just been
\* answered.
FeedRequestAnswered(op) ==
    http'.op = op /\ (http' # http \/ user_feeds' # user_feeds)

\* C21: whenever a request changes the feeds (the store starts without any)
\* no user has two feeds with the same url, and an add-feed for a
\* (user, url) pair that is stored is answered "Feed already exists" and
\* leaves every user's feeds as they were.
C21_FeedUrlsUnique ==
    [][/\ user_feeds' # user_feeds =>
             \A j, k \in 1..Len(user_feeds') :
                 (/\ user_feeds'[j].user_id = user_feeds'[k].user_id
                  /\ user_feeds'[j].feed_url = user_feeds'[k].feed_url) => j = k
       /\ (FeedRequestAnswered("add_feed") /\
           \E k \in 1..Len(user_feeds) :
               /\ user_feeds[k].user_id = http'.user_id
               /\ user_feeds[k].feed_url = http'.feed_url) =>
              /\ http'.status = 400 /\ http'.detail = "Feed already exists"
              /\ user_feeds' = user_feeds]_vars

\* A user who has a default feed asked to add its url again and was told
\* that the feed exists.
C21_Witness ==
    /\ http.op = "add_feed" /\ http.detail = "Feed already exists"
    /\ \E k \in 1..Len(user_feeds) :
          /\ user_feeds[k].user_id = http.user_id
          /\ user_feeds[k].feed_url = http.feed_url
    /\ Cardinality(DOMAIN users) = 2

\* C29: a remove-feed for a feed id that is not a row of that user (another
\* user's, or nobody's) is answered 404 and leaves every row in place; for
\* a feed id of the user it removes that row and no other.
C29_RemoveOwnFeedOnly ==
    [][FeedRequestAnswered("remove_feed") =>
         IF \E k \in 1..Len(user_feeds) :
                /\ user_feeds[k].id = http'.feed_id
                /\ user_feeds[k].user_id = http'.user_id
         THEN /\ http'.status = 303
              /\ Len(user_feeds') = Len(user_feeds) - 1
              /\ \A k \in 1..Len(user_feeds) :
                    user_feeds[k].id # http'.feed_id =>
                        \E j \in 1..Len(user_feeds') :
                            user_feeds'[j] = user_feeds[k]
         ELSE /\ http'.status = 404
              /\ user_feeds' = user_feeds]_vars

\* A stored user asked to remove a feed that is a row of another user, was
\* answered 404, and the row is still there.
C29_Witness ==
    /\ http.op = "remove_feed" /\ http.status = 404
    /\ http.user_id \in DOMAIN users
    /\ \E k \in 1..Len(user_feeds) :
          /\ user_feeds[k].id = http.feed_id
          /\ user_feeds[k].user_id # http.user_id

\* -------------------------------------------------------------- claim C30
\* C30: in the single-user job, when fetch_articles yields no articles the
\* summarization oracle is not called and nothing is posted to Slack.
C30_EmptyRunSkipped ==
    (sel.phase \in {"failed", "summarized", "notified"} /\ sel.result = <<>>) =>
        /\ sel.summary \notin {"raise", "oracle", "local"}
        /\ ~sel.posted

\* -------------------------------------------------------------- claim C24
\* The tick in the scheduled hour of a user on local date d.
TickOn(u, d) == d * HoursPerDay + users[u].schedule_hour - TzOffset[TzOf(u)]

\* C24: when a pass whose tick falls on local date D of a user writes that
\* user's last_digest_sent, the user is due again at the tick in the
\* scheduled hour on local date D + 1.
C24_NextDayStillDue ==
    [][\A p \in Procs :
         (Running(p) /\ ~send[p].stamped /\ send'[p].stamped) =>
             LET u == send[p].user
                 next == TickOn(u, LocalDate(pass[p].tick, TzOf(u)) + 1)
             IN IsDue(users'[u], users'[u].last_digest_sent, next)]_vars

\* -------------------------------------------------------------- claim C28
\* The columns of a users row that no delivery writes.
Profile(row) == [row EXCEPT !.last_digest_sent = <<>>]

\* C28: a step of a scheduling pass changes nothing stored but the
\* last_digest_sent of a user whose Slack POST has completed without
\* raising in that pass: the rows of all other users, every user's email,
\* webhook, timezone, schedule_hour and active flag, and the feeds stay as
\* they are.
C28_PassWritesOnlyStamps ==
    [][/\ user_feeds' = user_feeds
       /\ feed_seq' = feed_seq
       /\ DOMAIN users' = DOMAIN users
       /\ \A u \in DOMAIN users :
             /\ Profile(users'[u]) = Profile(users[u])
             /\ users'[u] # users[u] =>
                   \E p \in Procs :
                       /\ Running(p) /\ u \in pass[p].handed
                       /\ send[p].user = u /\ send[p].slack = "ok"]_vars

\* In one pass a user whose POST raised has no last_digest_sent and a later
\* user whose POST completed has just been stamped.
C28_Witness ==
    \E p \in Procs :
        /\ Running(p) /\ send[p].stamped /\ send[p].slack = "ok"
        /\ users[send[p].user].last_digest_sent = <<now>>
        /\ \E v \in pass[p].handed \cap pass[p].errors :
              users[v].last_digest_sent = <<>>

\* -------------------------------------------------------------- claim C22
\* The urls of a list of feeds.
UrlSet(feeds) == {feeds[i] : i \in 1..Len(feeds)}

\* The urls of the user's active user_feeds rows.
ActiveFeedsOf(u) ==
    {user_feeds[i].feed_url :
        i \in {j \in 1..Len(user_feeds) :
                  user_feeds[j].user_id = u /\ user_feeds[j].active}}

\* C22: a fetch for a user without an active feed reads the fixed default
\* list; a fetch for a user with an active feed reads exactly the user's
\* active feeds, so no default the user has not configured is read, and
\* every collected entry was served by one of the feeds read.
C22_DefaultsOnlyWithoutFeeds ==
    \A p \in Procs :
        send[p].fetched # "none" =>
            LET own == ActiveFeedsOf(send[p].user)
                read == UrlSet(send[p].feeds)
            IN /\ own = {} => send[p].feeds = FallbackFeeds
               /\ own # {} =>
                     /\ read = own
                     /\ Len(send[p].feeds) = Cardinality(own)
                     /\ (UrlSet(FallbackFeeds) \ own) \cap read = {}
               /\ \A i \in 1..Len(send[p].pool) :
                     \E url \in read :
                         send[p].pool[i] \in
                             UrlSet(FeedResponse(send[p].world, url).entries)

\* In one pass u1 was fetched from its ten configured feeds, and now u2,
\* who has no feed, is fetched from the default list.
C22_Witness ==
    \E p \in Procs :
        /\ send[p].fetched = "ok" /\ send[p].user = "u2"
        /\ ActiveFeedsOf("u2") = {} /\ send[p].feeds = FallbackFeeds
        /\ send[p].pool # <<>>
        /\ "u1" \in pass[p].handed /\ ActiveFeedsOf("u1") # {}

\* -------------------------------------------------------------- claim C25
\* C25: when two scheduling passes overlap, no user is dispatched by both
\* for the same local date: two running passes whose ticks fall on the same
\* local date of a user have not both posted that user's digest.
C25_NoDoubleDispatch ==
    \A p, q \in Procs : \A u \in DOMAIN users :
        (/\ p # q
         /\ Running(p) /\ Running(q)
         /\ u \in pass[p].handed \cap pass[q].handed
         /\ LocalDate(pass[p].tick, TzOf(u)) = LocalDate(pass[q].tick, TzOf(u))
         /\ send[p].user = u /\ send[p].slack = "ok")
        => ~(send[q].user = u /\ send[q].slack = "ok")

\* -------------------------------------------------------------- claim C27
\* C27: no trigger path sends a digest to a user whose active flag is false
\* or changes that user's last_digest_sent.
C27_InactiveNeverSent ==
    [][\A u \in DOMAIN users :
         ~users[u].active =>
             /\ slackLog'[u] = slackLog[u]
             /\ users'[u].last_digest_sent = users[u].last_digest_sent]_vars

\* -------------------------------------------------------------- claim C23
Forced(p) == pass[p].status = "forced"

\* The ticks from t on that fall on the local date t has for user u.
RestOfLocalDate(u, t) ==
    {k \in t..MaxNow : LocalDate(k, TzOf(u)) = LocalDate(t, TzOf(u))}

\* C23: GET /trigger/{userId} starts a delivery for an existing user whatever
\* the local hour and last_digest_sent are; a forced delivery that was
\* dispatched has updated last_digest_sent when it returns, and from that
\* update on the stored row makes the user not due at any tick of the rest
\* of that local date.
C23_ForcedTrigger ==
    [][/\ pass["http"].status = "idle" =>
             \A id \in TriggerInputs \cap DOMAIN users :
                 ENABLED ForceSend("http", id)
       /\ \A p \in Procs :
             (Forced(p) /\ send[p].pc = "done" /\ send[p].slack = "ok") =>
                 /\ send[p].stamped
                 /\ users[send[p].user].last_digest_sent # <<>>
       /\ \A p \in Procs :
             (Forced(p) /\ ~send[p].stamped /\ send'[p].stamped) =>
                 \A k \in RestOfLocalDate(send[p].user, now) :
                     ~IsDue(users'[send[p].user],
                            users'[send[p].user].last_digest_sent, k)]_vars

\* GET /trigger/u1 has answered 200 and u1 is stamped; a pass started at u1's
\* schedule hour, on the local date of the stamp, has skipped u1.
C23_Witness ==
    /\ http.op = "trigger" /\ http.user_id = "u1" /\ http.status = 200
    /\ \E p \in Procs :
         /\ Running(p)
         /\ LocalHour(pass[p].tick, TzOf("u1")) = users["u1"].schedule_hour
         /\ pass[p].snap["u1"] # <<>>
         /\ LocalDate(pass[p].snap["u1"][1], TzOf("u1"))
              = LocalDate(pass[p].tick, TzOf("u1"))
         /\ "u1" \in pass[p].evaluated \ pass[p].handed

====
